---- MODULE Spec2Model ----
(***************************************************************************)
(* State-machine model of the NhoyHub order API (src/main.py).             *)
(*                                                                         *)
(* Representation.  The strs the code inspects character by character      *)
(* (name, udid, status, q and the derived price) are sequences of Unicode  *)
(* code points, so "" is << >> and "A$1" is <<65, 36, 49>>; Str writes     *)
(* such a str from its printable ASCII characters.  The strs the code only *)
(* compares or stores whole are plain TLA+ strings (tokens, credentials,   *)
(* config values, file names, fixed messages) or, where the code builds    *)
(* them or uses them as dict keys, sequences of pieces whose concatenation *)
(* is the text (urls, config keys, the esign message): a piece is a TLA+   *)
(* string, or an integer standing for its decimal text.  An Optional is a  *)
(* sequence of length at most one: None is << >> and a present value v is  *)
(* <<v>>.  time.time() is an integer number of clock ticks of one second.  *)
(* The keys of a response built as a dict literal with a computed key are  *)
(* piece sequences, as the keys of config_db are.                          *)
(* A dict is a function from its keys.  The files save_upload_file writes  *)
(* under UPLOAD_DIR are not part of the state: no handler reads them back. *)
(***************************************************************************)
EXTENDS Integers, Sequences, FiniteSets, TLC

VARIABLES orders_db, config_db, now, resp, steps, deleted

vars == <<orders_db, config_db, now, resp, steps, deleted>>

None == << >>
Some(v) == <<v>>

\* Python truthiness of an Optional[str]: None and "" are both falsy.
Truthy(opt) == opt # None /\ opt[1] # << >>

(***************************************************************************)
(* Bounds of the exploration.                                              *)
(***************************************************************************)
\* Number of state-changing requests explored in one run of Spec.
MaxSteps == 2
\* The same for SpecQuery, which explores the queries of list_orders.
MaxQuerySteps == 2
\* The same for SpecDelete, which explores creations and deletions.
MaxDeleteSteps == 3

(***************************************************************************)
(* Program constants.                                                      *)
(***************************************************************************)
UPLOAD_DIR == "images"
ADMIN_USERNAME == "admin"
ADMIN_PASSWORD == "password123"
ADMIN_TOKEN == "fake-jwt-token-for-admin"
\* range(1, 26): the seeded orders are numbered 1..NumSeed.
NumSeed == 25
\* Seconds between the created_at values of consecutive seeded orders.
SeedSpacing == 3600
\* Inclusive range of the esign slots accepted by update_esign_image_url.
EsignLow == 1
EsignHigh == 5
HTTP_200 == 200
HTTP_201 == 201
HTTP_204 == 204
HTTP_400 == 400
HTTP_401 == 401
HTTP_404 == 404
HTTP_500 == 500

(***************************************************************************)
(* Characters.                                                             *)
(***************************************************************************)
\* The printable ASCII characters written in this module, in code-point
\* order: U+0020 to U+005F, and U+0061 to U+007E.
PrintableLow ==
    <<" ","!","\"","#","$","%","&","'","(",")","*","+",",","-",".","/",
      "0","1","2","3","4","5","6","7","8","9",":",";","<","=",">","?",
      "@","A","B","C","D","E","F","G","H","I","J","K","L","M","N","O",
      "P","Q","R","S","T","U","V","W","X","Y","Z","[","\\","]","^","_">>
PrintableHigh ==
    <<"a","b","c","d","e","f","g","h","i","j","k","l","m","n","o",
      "p","q","r","s","t","u","v","w","x","y","z","{","|","}","~">>

\* ord(c) of one of these characters
Ord ==
    [c \in {PrintableLow[k] : k \in 1..Len(PrintableLow)}
           \cup {PrintableHigh[k] : k \in 1..Len(PrintableHigh)} |->
        IF \E k \in 1..Len(PrintableLow) : PrintableLow[k] = c
        THEN 31 + (CHOOSE k \in 1..Len(PrintableLow) : PrintableLow[k] = c)
        ELSE 96 + (CHOOSE k \in 1..Len(PrintableHigh) : PrintableHigh[k] = c)]

\* The str with the given printable ASCII characters.
Str(chars) == [k \in 1..Len(chars) |-> Ord[chars[k]]]

(***************************************************************************)
(* str.lower().  CPython lowers a str of ASCII characters byte by byte and *)
(* any other str through the Unicode character database (version 14.0 in   *)
(* CPython 3.11): every character is replaced by its lowercase mapping,    *)
(* which for U+0130 is two characters and for U+03A3 depends on the        *)
(* characters around it.                                                   *)
(***************************************************************************)
\* The one-to-one lowercase mappings: <<first, last, step, delta>> says
\* that first, first + step, ..., last each map to themselves plus delta.
LowerRuns == {
    <<65,90,1,32>>, <<192,214,1,32>>, <<216,222,1,32>>, <<256,302,2,1>>,
    <<306,310,2,1>>, <<313,327,2,1>>, <<330,374,2,1>>, <<376,376,1,-121>>,
    <<377,381,2,1>>, <<385,385,1,210>>, <<386,388,2,1>>, <<390,390,1,206>>,
    <<391,391,1,1>>, <<393,394,1,205>>, <<395,395,1,1>>, <<398,398,1,79>>,
    <<399,399,1,202>>, <<400,400,1,203>>, <<401,401,1,1>>,
    <<403,403,1,205>>, <<404,404,1,207>>, <<406,406,1,211>>,
    <<407,407,1,209>>, <<408,408,1,1>>, <<412,412,1,211>>,
    <<413,413,1,213>>, <<415,415,1,214>>, <<416,420,2,1>>,
    <<422,422,1,218>>, <<423,423,1,1>>, <<425,425,1,218>>, <<428,428,1,1>>,
    <<430,430,1,218>>, <<431,431,1,1>>, <<433,434,1,217>>, <<435,437,2,1>>,
    <<439,439,1,219>>, <<440,440,1,1>>, <<444,444,1,1>>, <<452,452,1,2>>,
    <<453,453,1,1>>, <<455,455,1,2>>, <<456,456,1,1>>, <<458,458,1,2>>,
    <<459,475,2,1>>, <<478,494,2,1>>, <<497,497,1,2>>, <<498,500,2,1>>,
    <<502,502,1,-97>>, <<503,503,1,-56>>, <<504,542,2,1>>,
    <<544,544,1,-130>>, <<546,562,2,1>>, <<570,570,1,10795>>,
    <<571,571,1,1>>, <<573,573,1,-163>>, <<574,574,1,10792>>,
    <<577,577,1,1>>, <<579,579,1,-195>>, <<580,580,1,69>>,
    <<581,581,1,71>>, <<582,590,2,1>>, <<880,882,2,1>>, <<886,886,1,1>>,
    <<895,895,1,116>>, <<902,902,1,38>>, <<904,906,1,37>>,
    <<908,908,1,64>>, <<910,911,1,63>>, <<913,929,1,32>>, <<931,939,1,32>>,
    <<975,975,1,8>>, <<984,1006,2,1>>, <<1012,1012,1,-60>>,
    <<1015,1015,1,1>>, <<1017,1017,1,-7>>, <<1018,1018,1,1>>,
    <<1021,1023,1,-130>>, <<1024,1039,1,80>>, <<1040,1071,1,32>>,
    <<1120,1152,2,1>>, <<1162,1214,2,1>>, <<1216,1216,1,15>>,
    <<1217,1229,2,1>>, <<1232,1326,2,1>>, <<1329,1366,1,48>>,
    <<4256,4293,1,7264>>, <<4295,4295,1,7264>>, <<4301,4301,1,7264>>,
    <<5024,5103,1,38864>>, <<5104,5109,1,8>>, <<7312,7354,1,-3008>>,
    <<7357,7359,1,-3008>>, <<7680,7828,2,1>>, <<7838,7838,1,-7615>>,
    <<7840,7934,2,1>>, <<7944,7951,1,-8>>, <<7960,7965,1,-8>>,
    <<7976,7983,1,-8>>, <<7992,7999,1,-8>>, <<8008,8013,1,-8>>,
    <<8025,8031,2,-8>>, <<8040,8047,1,-8>>, <<8072,8079,1,-8>>,
    <<8088,8095,1,-8>>, <<8104,8111,1,-8>>, <<8120,8121,1,-8>>,
    <<8122,8123,1,-74>>, <<8124,8124,1,-9>>, <<8136,8139,1,-86>>,
    <<8140,8140,1,-9>>, <<8152,8153,1,-8>>, <<8154,8155,1,-100>>,
    <<8168,8169,1,-8>>, <<8170,8171,1,-112>>, <<8172,8172,1,-7>>,
    <<8184,8185,1,-128>>, <<8186,8187,1,-126>>, <<8188,8188,1,-9>>,
    <<8486,8486,1,-7517>>, <<8490,8490,1,-8383>>, <<8491,8491,1,-8262>>,
    <<8498,8498,1,28>>, <<8544,8559,1,16>>, <<8579,8579,1,1>>,
    <<9398,9423,1,26>>, <<11264,11311,1,48>>, <<11360,11360,1,1>>,
    <<11362,11362,1,-10743>>, <<11363,11363,1,-3814>>,
    <<11364,11364,1,-10727>>, <<11367,11371,2,1>>,
    <<11373,11373,1,-10780>>, <<11374,11374,1,-10749>>,
    <<11375,11375,1,-10783>>, <<11376,11376,1,-10782>>,
    <<11378,11378,1,1>>, <<11381,11381,1,1>>, <<11390,11391,1,-10815>>,
    <<11392,11490,2,1>>, <<11499,11501,2,1>>, <<11506,11506,1,1>>,
    <<42560,42604,2,1>>, <<42624,42650,2,1>>, <<42786,42798,2,1>>,
    <<42802,42862,2,1>>, <<42873,42875,2,1>>, <<42877,42877,1,-35332>>,
    <<42878,42886,2,1>>, <<42891,42891,1,1>>, <<42893,42893,1,-42280>>,
    <<42896,42898,2,1>>, <<42902,42920,2,1>>, <<42922,42922,1,-42308>>,
    <<42923,42923,1,-42319>>, <<42924,42924,1,-42315>>,
    <<42925,42925,1,-42305>>, <<42926,42926,1,-42308>>,
    <<42928,42928,1,-42258>>, <<42929,42929,1,-42282>>,
    <<42930,42930,1,-42261>>, <<42931,42931,1,928>>, <<42932,42946,2,1>>,
    <<42948,42948,1,-48>>, <<42949,42949,1,-42307>>,
    <<42950,42950,1,-35384>>, <<42951,42953,2,1>>, <<42960,42960,1,1>>,
    <<42966,42968,2,1>>, <<42997,42997,1,1>>, <<65313,65338,1,32>>,
    <<66560,66599,1,40>>, <<66736,66771,1,40>>, <<66928,66938,1,39>>,
    <<66940,66954,1,39>>, <<66956,66962,1,39>>, <<66964,66965,1,39>>,
    <<68736,68786,1,64>>, <<71840,71871,1,32>>, <<93760,93791,1,32>>,
    <<125184,125217,1,34>> }

\* The cased characters that are not case-ignorable, as <<first, last>>.
CasedRuns == {
    <<65,90>>, <<97,122>>, <<170,170>>, <<181,181>>, <<186,186>>,
    <<192,214>>, <<216,246>>, <<248,442>>, <<444,447>>, <<452,659>>,
    <<661,687>>, <<880,883>>, <<886,887>>, <<891,893>>, <<895,895>>,
    <<902,902>>, <<904,906>>, <<908,908>>, <<910,929>>, <<931,1013>>,
    <<1015,1153>>, <<1162,1327>>, <<1329,1366>>, <<1376,1416>>,
    <<4256,4293>>, <<4295,4295>>, <<4301,4301>>, <<4304,4346>>,
    <<4349,4351>>, <<5024,5109>>, <<5112,5117>>, <<7296,7304>>,
    <<7312,7354>>, <<7357,7359>>, <<7424,7467>>, <<7531,7543>>,
    <<7545,7578>>, <<7680,7957>>, <<7960,7965>>, <<7968,8005>>,
    <<8008,8013>>, <<8016,8023>>, <<8025,8025>>, <<8027,8027>>,
    <<8029,8029>>, <<8031,8061>>, <<8064,8116>>, <<8118,8124>>,
    <<8126,8126>>, <<8130,8132>>, <<8134,8140>>, <<8144,8147>>,
    <<8150,8155>>, <<8160,8172>>, <<8178,8180>>, <<8182,8188>>,
    <<8450,8450>>, <<8455,8455>>, <<8458,8467>>, <<8469,8469>>,
    <<8473,8477>>, <<8484,8484>>, <<8486,8486>>, <<8488,8488>>,
    <<8490,8493>>, <<8495,8500>>, <<8505,8505>>, <<8508,8511>>,
    <<8517,8521>>, <<8526,8526>>, <<8544,8575>>, <<8579,8580>>,
    <<9398,9449>>, <<11264,11387>>, <<11390,11492>>, <<11499,11502>>,
    <<11506,11507>>, <<11520,11557>>, <<11559,11559>>, <<11565,11565>>,
    <<42560,42605>>, <<42624,42651>>, <<42786,42863>>, <<42865,42887>>,
    <<42891,42894>>, <<42896,42954>>, <<42960,42961>>, <<42963,42963>>,
    <<42965,42969>>, <<42997,42998>>, <<43002,43002>>, <<43824,43866>>,
    <<43872,43880>>, <<43888,43967>>, <<64256,64262>>, <<64275,64279>>,
    <<65313,65338>>, <<65345,65370>>, <<66560,66639>>, <<66736,66771>>,
    <<66776,66811>>, <<66928,66938>>, <<66940,66954>>, <<66956,66962>>,
    <<66964,66965>>, <<66967,66977>>, <<66979,66993>>, <<66995,67001>>,
    <<67003,67004>>, <<68736,68786>>, <<68800,68850>>, <<71840,71903>>,
    <<93760,93823>>, <<119808,119892>>, <<119894,119964>>,
    <<119966,119967>>, <<119970,119970>>, <<119973,119974>>,
    <<119977,119980>>, <<119982,119993>>, <<119995,119995>>,
    <<119997,120003>>, <<120005,120069>>, <<120071,120074>>,
    <<120077,120084>>, <<120086,120092>>, <<120094,120121>>,
    <<120123,120126>>, <<120128,120132>>, <<120134,120134>>,
    <<120138,120144>>, <<120146,120485>>, <<120488,120512>>,
    <<120514,120538>>, <<120540,120570>>, <<120572,120596>>,
    <<120598,120628>>, <<120630,120654>>, <<120656,120686>>,
    <<120688,120712>>, <<120714,120744>>, <<120746,120770>>,
    <<120772,120779>>, <<122624,122633>>, <<122635,122654>>,
    <<125184,125251>>, <<127280,127305>>, <<127312,127337>>,
    <<127344,127369>> }

\* The case-ignorable characters, as <<first, last>>.
CaseIgnorableRuns == {
    <<39,39>>, <<46,46>>, <<58,58>>, <<94,94>>, <<96,96>>, <<168,168>>,
    <<173,173>>, <<175,175>>, <<180,180>>, <<183,184>>, <<688,879>>,
    <<884,885>>, <<890,890>>, <<900,901>>, <<903,903>>, <<1155,1161>>,
    <<1369,1369>>, <<1375,1375>>, <<1425,1469>>, <<1471,1471>>,
    <<1473,1474>>, <<1476,1477>>, <<1479,1479>>, <<1524,1524>>,
    <<1536,1541>>, <<1552,1562>>, <<1564,1564>>, <<1600,1600>>,
    <<1611,1631>>, <<1648,1648>>, <<1750,1757>>, <<1759,1768>>,
    <<1770,1773>>, <<1807,1807>>, <<1809,1809>>, <<1840,1866>>,
    <<1958,1968>>, <<2027,2037>>, <<2042,2042>>, <<2045,2045>>,
    <<2070,2093>>, <<2137,2139>>, <<2184,2184>>, <<2192,2193>>,
    <<2200,2207>>, <<2249,2306>>, <<2362,2362>>, <<2364,2364>>,
    <<2369,2376>>, <<2381,2381>>, <<2385,2391>>, <<2402,2403>>,
    <<2417,2417>>, <<2433,2433>>, <<2492,2492>>, <<2497,2500>>,
    <<2509,2509>>, <<2530,2531>>, <<2558,2558>>, <<2561,2562>>,
    <<2620,2620>>, <<2625,2626>>, <<2631,2632>>, <<2635,2637>>,
    <<2641,2641>>, <<2672,2673>>, <<2677,2677>>, <<2689,2690>>,
    <<2748,2748>>, <<2753,2757>>, <<2759,2760>>, <<2765,2765>>,
    <<2786,2787>>, <<2810,2815>>, <<2817,2817>>, <<2876,2876>>,
    <<2879,2879>>, <<2881,2884>>, <<2893,2893>>, <<2901,2902>>,
    <<2914,2915>>, <<2946,2946>>, <<3008,3008>>, <<3021,3021>>,
    <<3072,3072>>, <<3076,3076>>, <<3132,3132>>, <<3134,3136>>,
    <<3142,3144>>, <<3146,3149>>, <<3157,3158>>, <<3170,3171>>,
    <<3201,3201>>, <<3260,3260>>, <<3263,3263>>, <<3270,3270>>,
    <<3276,3277>>, <<3298,3299>>, <<3328,3329>>, <<3387,3388>>,
    <<3393,3396>>, <<3405,3405>>, <<3426,3427>>, <<3457,3457>>,
    <<3530,3530>>, <<3538,3540>>, <<3542,3542>>, <<3633,3633>>,
    <<3636,3642>>, <<3654,3662>>, <<3761,3761>>, <<3764,3772>>,
    <<3782,3782>>, <<3784,3789>>, <<3864,3865>>, <<3893,3893>>,
    <<3895,3895>>, <<3897,3897>>, <<3953,3966>>, <<3968,3972>>,
    <<3974,3975>>, <<3981,3991>>, <<3993,4028>>, <<4038,4038>>,
    <<4141,4144>>, <<4146,4151>>, <<4153,4154>>, <<4157,4158>>,
    <<4184,4185>>, <<4190,4192>>, <<4209,4212>>, <<4226,4226>>,
    <<4229,4230>>, <<4237,4237>>, <<4253,4253>>, <<4348,4348>>,
    <<4957,4959>>, <<5906,5908>>, <<5938,5939>>, <<5970,5971>>,
    <<6002,6003>>, <<6068,6069>>, <<6071,6077>>, <<6086,6086>>,
    <<6089,6099>>, <<6103,6103>>, <<6109,6109>>, <<6155,6159>>,
    <<6211,6211>>, <<6277,6278>>, <<6313,6313>>, <<6432,6434>>,
    <<6439,6440>>, <<6450,6450>>, <<6457,6459>>, <<6679,6680>>,
    <<6683,6683>>, <<6742,6742>>, <<6744,6750>>, <<6752,6752>>,
    <<6754,6754>>, <<6757,6764>>, <<6771,6780>>, <<6783,6783>>,
    <<6823,6823>>, <<6832,6862>>, <<6912,6915>>, <<6964,6964>>,
    <<6966,6970>>, <<6972,6972>>, <<6978,6978>>, <<7019,7027>>,
    <<7040,7041>>, <<7074,7077>>, <<7080,7081>>, <<7083,7085>>,
    <<7142,7142>>, <<7144,7145>>, <<7149,7149>>, <<7151,7153>>,
    <<7212,7219>>, <<7222,7223>>, <<7288,7293>>, <<7376,7378>>,
    <<7380,7392>>, <<7394,7400>>, <<7405,7405>>, <<7412,7412>>,
    <<7416,7417>>, <<7468,7530>>, <<7544,7544>>, <<7579,7679>>,
    <<8125,8125>>, <<8127,8129>>, <<8141,8143>>, <<8157,8159>>,
    <<8173,8175>>, <<8189,8190>>, <<8203,8207>>, <<8216,8217>>,
    <<8228,8228>>, <<8231,8231>>, <<8234,8238>>, <<8288,8292>>,
    <<8294,8303>>, <<8305,8305>>, <<8319,8319>>, <<8336,8348>>,
    <<8400,8432>>, <<11388,11389>>, <<11503,11505>>, <<11631,11631>>,
    <<11647,11647>>, <<11744,11775>>, <<11823,11823>>, <<12293,12293>>,
    <<12330,12333>>, <<12337,12341>>, <<12347,12347>>, <<12441,12446>>,
    <<12540,12542>>, <<40981,40981>>, <<42232,42237>>, <<42508,42508>>,
    <<42607,42610>>, <<42612,42621>>, <<42623,42623>>, <<42652,42655>>,
    <<42736,42737>>, <<42752,42785>>, <<42864,42864>>, <<42888,42890>>,
    <<42994,42996>>, <<43000,43001>>, <<43010,43010>>, <<43014,43014>>,
    <<43019,43019>>, <<43045,43046>>, <<43052,43052>>, <<43204,43205>>,
    <<43232,43249>>, <<43263,43263>>, <<43302,43309>>, <<43335,43345>>,
    <<43392,43394>>, <<43443,43443>>, <<43446,43449>>, <<43452,43453>>,
    <<43471,43471>>, <<43493,43494>>, <<43561,43566>>, <<43569,43570>>,
    <<43573,43574>>, <<43587,43587>>, <<43596,43596>>, <<43632,43632>>,
    <<43644,43644>>, <<43696,43696>>, <<43698,43700>>, <<43703,43704>>,
    <<43710,43711>>, <<43713,43713>>, <<43741,43741>>, <<43756,43757>>,
    <<43763,43764>>, <<43766,43766>>, <<43867,43871>>, <<43881,43883>>,
    <<44005,44005>>, <<44008,44008>>, <<44013,44013>>, <<64286,64286>>,
    <<64434,64450>>, <<65024,65039>>, <<65043,65043>>, <<65056,65071>>,
    <<65106,65106>>, <<65109,65109>>, <<65279,65279>>, <<65287,65287>>,
    <<65294,65294>>, <<65306,65306>>, <<65342,65342>>, <<65344,65344>>,
    <<65392,65392>>, <<65438,65439>>, <<65507,65507>>, <<65529,65531>>,
    <<66045,66045>>, <<66272,66272>>, <<66422,66426>>, <<67456,67461>>,
    <<67463,67504>>, <<67506,67514>>, <<68097,68099>>, <<68101,68102>>,
    <<68108,68111>>, <<68152,68154>>, <<68159,68159>>, <<68325,68326>>,
    <<68900,68903>>, <<69291,69292>>, <<69446,69456>>, <<69506,69509>>,
    <<69633,69633>>, <<69688,69702>>, <<69744,69744>>, <<69747,69748>>,
    <<69759,69761>>, <<69811,69814>>, <<69817,69818>>, <<69821,69821>>,
    <<69826,69826>>, <<69837,69837>>, <<69888,69890>>, <<69927,69931>>,
    <<69933,69940>>, <<70003,70003>>, <<70016,70017>>, <<70070,70078>>,
    <<70089,70092>>, <<70095,70095>>, <<70191,70193>>, <<70196,70196>>,
    <<70198,70199>>, <<70206,70206>>, <<70367,70367>>, <<70371,70378>>,
    <<70400,70401>>, <<70459,70460>>, <<70464,70464>>, <<70502,70508>>,
    <<70512,70516>>, <<70712,70719>>, <<70722,70724>>, <<70726,70726>>,
    <<70750,70750>>, <<70835,70840>>, <<70842,70842>>, <<70847,70848>>,
    <<70850,70851>>, <<71090,71093>>, <<71100,71101>>, <<71103,71104>>,
    <<71132,71133>>, <<71219,71226>>, <<71229,71229>>, <<71231,71232>>,
    <<71339,71339>>, <<71341,71341>>, <<71344,71349>>, <<71351,71351>>,
    <<71453,71455>>, <<71458,71461>>, <<71463,71467>>, <<71727,71735>>,
    <<71737,71738>>, <<71995,71996>>, <<71998,71998>>, <<72003,72003>>,
    <<72148,72151>>, <<72154,72155>>, <<72160,72160>>, <<72193,72202>>,
    <<72243,72248>>, <<72251,72254>>, <<72263,72263>>, <<72273,72278>>,
    <<72281,72283>>, <<72330,72342>>, <<72344,72345>>, <<72752,72758>>,
    <<72760,72765>>, <<72767,72767>>, <<72850,72871>>, <<72874,72880>>,
    <<72882,72883>>, <<72885,72886>>, <<73009,73014>>, <<73018,73018>>,
    <<73020,73021>>, <<73023,73029>>, <<73031,73031>>, <<73104,73105>>,
    <<73109,73109>>, <<73111,73111>>, <<73459,73460>>, <<78896,78904>>,
    <<92912,92916>>, <<92976,92982>>, <<92992,92995>>, <<94031,94031>>,
    <<94095,94111>>, <<94176,94177>>, <<94179,94180>>, <<110576,110579>>,
    <<110581,110587>>, <<110589,110590>>, <<113821,113822>>,
    <<113824,113827>>, <<118528,118573>>, <<118576,118598>>,
    <<119143,119145>>, <<119155,119170>>, <<119173,119179>>,
    <<119210,119213>>, <<119362,119364>>, <<121344,121398>>,
    <<121403,121452>>, <<121461,121461>>, <<121476,121476>>,
    <<121499,121503>>, <<121505,121519>>, <<122880,122886>>,
    <<122888,122904>>, <<122907,122913>>, <<122915,122916>>,
    <<122918,122922>>, <<123184,123197>>, <<123566,123566>>,
    <<123628,123631>>, <<125136,125142>>, <<125252,125259>>,
    <<127995,127999>>, <<917505,917505>>, <<917536,917631>>,
    <<917760,917999>> }

\* U+0130 (capital I with dot above) lowers to "i" and a combining dot.
LATIN_CAPITAL_I_DOT == 304
LowerOfIDot == <<105, 775>>
\* U+03A3 (capital sigma) lowers to U+03C2 at the end of a word and to
\* U+03C3 elsewhere.
GREEK_CAPITAL_SIGMA == 931
GREEK_SMALL_FINAL_SIGMA == 962
GREEK_SMALL_SIGMA == 963
\* The last ASCII code point.
MaxAscii == 127

InRuns(c, runs) == \E r \in runs : r[1] <= c /\ c <= r[2]

\* _PyUnicode_IsCaseIgnorable
CaseIgnorable(c) == InRuns(c, CaseIgnorableRuns)

\* _PyUnicode_IsCased, for a character that is not case-ignorable
Cased(c) == InRuns(c, CasedRuns)

\* handle_capital_sigma: s[k] is a capital sigma; it is final when the
\* nearest character before it that is not case-ignorable is cased and the
\* nearest such character after it, if any, is not.
FinalSigma(s, k) ==
    LET before == {j \in 1..(k - 1) : ~CaseIgnorable(s[j])}
        after == {j \in (k + 1)..Len(s) : ~CaseIgnorable(s[j])}
    IN  /\ before # {}
        /\ Cased(s[CHOOSE j \in before : \A i \in before : i <= j])
        /\ \/ after = {}
           \/ ~Cased(s[CHOOSE j \in after : \A i \in after : j <= i])

\* The lowercase mapping of one character, which may be two characters.
InLowerRun(c, r) == r[1] <= c /\ c <= r[2] /\ (c - r[1]) % r[3] = 0
LowerChar(c) ==
    IF c = LATIN_CAPITAL_I_DOT THEN LowerOfIDot
    ELSE IF \E r \in LowerRuns : InLowerRun(c, r)
    THEN <<c + (CHOOSE r \in LowerRuns : InLowerRun(c, r))[4]>>
    ELSE <<c>>

\* The lowercase mapping of s[k] where it stands in s.
LowerAt(s, k) ==
    IF s[k] = GREEK_CAPITAL_SIGMA
    THEN (IF FinalSigma(s, k) THEN <<GREEK_SMALL_FINAL_SIGMA>>
          ELSE <<GREEK_SMALL_SIGMA>>)
    ELSE LowerChar(s[k])

RECURSIVE LowerFrom(_, _)
LowerFrom(s, k) ==
    IF k > Len(s) THEN << >> ELSE LowerAt(s, k) \o LowerFrom(s, k + 1)

IsAscii(s) == \A k \in 1..Len(s) : s[k] <= MaxAscii

CapitalA == Ord["A"]
CapitalZ == Ord["Z"]
SmallA == Ord["a"]

\* str.lower()
Lower(s) ==
    IF IsAscii(s)
    THEN [k \in 1..Len(s) |->
             IF CapitalA <= s[k] /\ s[k] <= CapitalZ
             THEN s[k] + (SmallA - CapitalA) ELSE s[k]]
    ELSE LowerFrom(s, 1)

(***************************************************************************)
(* `in`, str(int), re.search.                                              *)
(***************************************************************************)
\* needle in hay (substring test on str)
Contains(needle, hay) ==
    \E k \in 0..(Len(hay) - Len(needle)) :
        \A j \in 1..Len(needle) : hay[k + j] = needle[j]

\* f"{n}" for an int n >= 0
RECURSIVE Digits(_)
Digits(n) ==
    IF n < 10 THEN <<Ord["0"] + n>>
    ELSE Digits(n \div 10) \o <<Ord["0"] + (n % 10)>>

\* \d of a str pattern: the characters of Unicode category Nd.  They come
\* in runs of ten, zero to nine; DigitZeros lists the zero of every run.
DigitZeros == {
    48, 1632, 1776, 1984, 2406, 2534, 2662, 2790, 2918, 3046, 3174, 3302,
    3430, 3558, 3664, 3792, 3872, 4160, 4240, 6112, 6160, 6470, 6608, 6784,
    6800, 6992, 7088, 7232, 7248, 42528, 43216, 43264, 43472, 43504, 43600,
    44016, 65296, 66720, 68912, 69734, 69872, 69942, 70096, 70384, 70736,
    70864, 71248, 71360, 71472, 71904, 72016, 72784, 73040, 73120, 92768,
    92864, 93008, 120782, 120792, 120802, 120812, 120822, 123200, 123632,
    125264, 130032 }

IsDigit(c) == \E z \in DigitZeros : z <= c /\ c <= z + 9

\* The maximal run of digits of s that starts at position k (greedy \d+).
RECURSIVE DigitRun(_, _)
DigitRun(s, k) ==
    IF k <= Len(s) /\ IsDigit(s[k]) THEN <<s[k]>> \o DigitRun(s, k + 1)
    ELSE << >>

NA == Str(<<"N", "/", "A">>)
Dollar == Ord["$"]

\* re.search(r'\$(\d+)', name): leftmost "$" that a digit follows.
extract_price_from_name(name) ==
    LET hits == {k \in 1..(Len(name) - 1) :
                    name[k] = Dollar /\ IsDigit(name[k + 1])}
    IN  IF hits = {} THEN NA
        ELSE LET first == CHOOSE k \in hits : \A j \in hits : k <= j
             IN  DigitRun(name, first + 1)

(***************************************************************************)
(* dict helpers.                                                           *)
(***************************************************************************)
\* d[k] = v on a dict: overwrites the key, or adds it when it is new.
DictSet(d, k, v) == [x \in (DOMAIN d) \cup {k} |-> IF x = k THEN v ELSE d[x]]

\* {**o, "price": extract_price_from_name(o["name"])}
WithPrice(o) == DictSet(o, "price", extract_price_from_name(o.name))

(***************************************************************************)
(* Literals of the source.                                                 *)
(***************************************************************************)
PENDING == Str(<<"p","e","n","d","i","n","g">>)
APPROVED == Str(<<"a","p","p","r","o","v","e","d">>)
REJECTED == Str(<<"r","e","j","e","c","t","e","d">>)
\* ["pending", "approved", "rejected"]
KnownStatuses == {PENDING, APPROVED, REJECTED}
DEFAULT_IMAGE_URL == <<"/", UPLOAD_DIR, "/", "default.jpg">>
PUBLIC_KEY == <<"public_image_url">>
\* f"esign_image_{index}"
EsignKey(index) == <<"esign_image_", index>>
DEFAULT_PUBLIC_IMAGE_URL ==
    "https://via.placeholder.com/600x400/9C27B0/ffffff?text=Public+Image"

\* The module-level config_db literal.
InitialConfig ==
    [k \in {PUBLIC_KEY} \cup {EsignKey(i) : i \in EsignLow..EsignHigh} |->
        IF k = PUBLIC_KEY THEN DEFAULT_PUBLIC_IMAGE_URL ELSE ""]

(***************************************************************************)
(* Startup: the seeded orders.  startup_event draws a fresh uuid4 and      *)
(* reads the clock anew for every order it appends.                        *)
(***************************************************************************)
\* The first clock reading of startup_event; late enough for every seeded
\* created_at to be a positive epoch time.
StartTime == NumSeed * SeedSpacing + 1

\* One hex digit, and the four hex digits of v in 0..65535.
HexDigit(v) == IF v < 10 THEN Ord["0"] + v ELSE Ord["a"] + (v - 10)
Hex4(v) ==
    <<HexDigit(v \div 4096), HexDigit((v \div 256) % 16),
      HexDigit((v \div 16) % 16), HexDigit(v % 16)>>

\* uuid.uuid4().hex[:12] of the n-th uuid a run of the random source gives;
\* salt tells the runs apart.  Every multiplier of n is odd, so the uuids
\* of one run differ from one another.
uuid4_hex12(salt, n) ==
    Hex4((n * 40503 + salt * 30011) % 65536)
    \o Hex4((n * 25173 + salt * 13849) % 65536)
    \o Hex4((n * 9301 + salt * 49297) % 65536)

\* The runs of startup_event explored: the random source of the run, and
\* the seeded order before whose clock reading the clock moves on by one
\* tick (NumSeed + 1 when the loop ends within the tick it began in).
StartupRuns ==
    { [salt |-> 1, tick_at |-> NumSeed + 1],
      [salt |-> 2, tick_at |-> 13] }

\* time.time() as read for the i-th seeded order
SeedClock(run, i) == IF i >= run.tick_at THEN StartTime + 1 ELSE StartTime

\* uuid.uuid4().hex[:8] of the file names save_upload_file makes: the
\* values of the random source explored.
FILE_HEX_1 == "c0ffee12"
FILE_HEX_2 == "0badf00d"
FileHexes == {FILE_HEX_1, FILE_HEX_2}

SeedOrder(i, hex, clock) ==
    [id |-> i,
     name |-> Str(<<"D","u","m","m","y"," ","I","t","e","m"," ">>) \o Digits(i)
              \o Str(<<" ", "$">>) \o Digits(100 + i),
     udid |-> Str(<<"d","u","m","m","y","-">>) \o Digits(i) \o Str(<<"-">>) \o hex,
     image_url |-> DEFAULT_IMAGE_URL,
     status |-> IF i % 3 = 0 THEN APPROVED
                ELSE IF i % 5 = 0 THEN REJECTED ELSE PENDING,
     download_link |-> IF i % 3 = 0
                       THEN Some(<<"http://example.com/download/", i>>)
                       ELSE None,
     created_at |-> clock - (i * SeedSpacing)]

startup_event(run) ==
    [i \in 1..NumSeed |->
        SeedOrder(i, uuid4_hex12(run.salt, i), SeedClock(run, i))]

(***************************************************************************)
(* Security dependency and image store.                                    *)
(***************************************************************************)
\* Mutant of get_current_user: any bearer token is accepted.
get_current_user_any(token) ==
    IF token = None THEN [ok |-> FALSE, code |-> HTTP_401, detail |-> "Not authenticated"]
    ELSE [ok |-> TRUE, code |-> HTTP_200, detail |-> ADMIN_USERNAME]

\* oauth2_scheme rejects a request without a bearer token; get_current_user
\* rejects every token but ADMIN_TOKEN.
get_current_user(token) ==
    IF token = None THEN [ok |-> FALSE, code |-> HTTP_401, detail |-> "Not authenticated"]
    ELSE IF token[1] # ADMIN_TOKEN
         THEN [ok |-> FALSE, code |-> HTTP_401,
               detail |-> "Invalid authentication credentials"]
         ELSE [ok |-> TRUE, code |-> HTTP_200, detail |-> ADMIN_USERNAME]

\* upload_file carries the file name, the uuid4 hex this call draws for the
\* stored name and whether the write to disk succeeds.
save_upload_file(upload_file, order_id) ==
    IF upload_file.io_ok
    THEN [ok |-> TRUE,
          url |-> <<"/", UPLOAD_DIR, "/", "order_", order_id,
                    "_", upload_file.hex, "_", upload_file.filename>>]
    ELSE [ok |-> FALSE, url |-> << >>]

Respond(op, req, code, body) == [op |-> op, req |-> req, code |-> code, body |-> body]

(***************************************************************************)
(* Initial state: module-level assignments followed by startup_event.      *)
(***************************************************************************)
Init ==
    /\ \E run \in StartupRuns :
           /\ orders_db = startup_event(run)
           /\ now = SeedClock(run, NumSeed)
    /\ config_db = InitialConfig
    /\ resp = Respond("startup", [token |-> None], 0, None)
    /\ steps = 0
    /\ deleted = FALSE

(***************************************************************************)
(* Steps of the handlers.                                                  *)
(***************************************************************************)
\* Mutant of NextId: the id is the current count, without the + 1.
NextIdStale(db) == Len(db)

\* new_id = len(orders_db) + 1
NextId(db) == Len(db) + 1

\* Index of the first order with the id (1-based), 0 when there is none:
\* next((i for i, o in enumerate(orders_db) if o["id"] == order_id), -1)
FindOrder(db, order_id) ==
    LET hits == {i \in 1..Len(db) : db[i].id = order_id}
    IN  IF hits = {} THEN 0 ELSE CHOOSE i \in hits : \A j \in hits : i <= j

\* [o for o in orders_db if o["id"] != order_id]
RemoveOrder(db, order_id) == SelectSeq(db, LAMBDA o : o.id # order_id)

\* Mutant of DeleteMissed: > in place of ==, so a miss is never reported.
DeleteMissedOff(initial_length, db) == Len(db) > initial_length

\* len(orders_db) == initial_length, after the removal
DeleteMissed(initial_length, db) == Len(db) = initial_length

\* Mutant of StatusFilter: the stored status is compared without .lower().
StatusFilterCaseSensitive(db, status) ==
    IF Truthy(status) /\ Lower(status[1]) \in KnownStatuses
    THEN SelectSeq(db, LAMBDA o : o.status = Lower(status[1]))
    ELSE db

\* if status and status.lower() in [...]: keep the orders of that status
StatusFilter(db, status) ==
    IF Truthy(status) /\ Lower(status[1]) \in KnownStatuses
    THEN SelectSeq(db, LAMBDA o : Lower(o.status) = Lower(status[1]))
    ELSE db

\* if q: q_lower = q.lower(); None when the branch is not taken
QLower(q) == IF Truthy(q) THEN Some(Lower(q[1])) ELSE None

\* if q: keep the orders whose lowercase name or udid contains q_lower
SearchFilter(db, q_lower) ==
    IF q_lower # None
    THEN SelectSeq(db, LAMBDA o :
             \E name \in {Lower(o.name)}, udid \in {Lower(o.udid)} :
                 Contains(q_lower[1], name) \/ Contains(q_lower[1], udid))
    ELSE db

\* sorted(filtered_orders, key=lambda x: x['created_at'], reverse=True):
\* a stable sort, so orders of equal created_at keep their relative order.
RECURSIVE SortByCreatedAtDesc(_)
SortByCreatedAtDesc(s) ==
    IF s = << >> THEN << >>
    ELSE LET n == Len(s)
             x == s[n]
             front == SortByCreatedAtDesc(SubSeq(s, 1, n - 1))
             p == Cardinality({i \in 1..(n - 1) : front[i].created_at >= x.created_at})
         IN  SubSeq(front, 1, p) \o <<x>> \o SubSeq(front, p + 1, n - 1)

\* Mutant of PageStart: pages counted from 0.
PageStartOff(page, page_size) == page * page_size

\* start = (page - 1) * page_size
PageStart(page, page_size) == (page - 1) * page_size

\* s[start:end] of a Python list
PySlice(s, start, end) ==
    LET n == Len(s)
        norm(i) == IF i < 0 THEN (IF i + n < 0 THEN 0 ELSE i + n)
                   ELSE (IF i > n THEN n ELSE i)
    IN  IF norm(start) >= norm(end) THEN << >>
        ELSE SubSeq(s, norm(start) + 1, norm(end))

\* Mutant of ApplyUpdate: download_link is merged by presence, an absent
\* one keeps the stored link.
ApplyUpdateMerge(order, name, udid, status, download_link, image_url) ==
    LET o1 == IF image_url # None THEN DictSet(order, "image_url", image_url[1])
              ELSE order
        o2 == DictSet(o1, "name", name)
        o3 == DictSet(o2, "udid", udid)
        o4 == DictSet(o3, "status", status)
        o5 == IF Truthy(download_link)
              THEN DictSet(o4, "download_link", download_link) ELSE o4
    IN  DictSet(o5, "price", extract_price_from_name(name))

\* Mutant of ApplyUpdate: the price stored on the order is not recomputed.
ApplyUpdateStalePrice(order, name, udid, status, download_link, image_url) ==
    LET o1 == IF image_url # None THEN DictSet(order, "image_url", image_url[1])
              ELSE order
        o2 == DictSet(o1, "name", name)
        o3 == DictSet(o2, "udid", udid)
        o4 == DictSet(o3, "status", status)
    IN  DictSet(o4, "download_link",
                IF Truthy(download_link) THEN download_link ELSE None)

\* The field assignments of update_order on the order found; image_url is
\* the freshly saved url, or None when no file was saved.
ApplyUpdate(order, name, udid, status, download_link, image_url) ==
    LET o1 == IF image_url # None THEN DictSet(order, "image_url", image_url[1])
              ELSE order
        o2 == DictSet(o1, "name", name)
        o3 == DictSet(o2, "udid", udid)
        o4 == DictSet(o3, "status", status)
        o5 == DictSet(o4, "download_link",
                      IF Truthy(download_link) THEN download_link ELSE None)
    IN  DictSet(o5, "price", extract_price_from_name(name))

\* Mutant of EsignIndexOk: the lower end of the range is off by one.
EsignIndexOkLoose(index) == EsignLow - 1 <= index /\ index <= EsignHigh

\* if not 1 <= index <= 5
EsignIndexOk(index) == EsignLow <= index /\ index <= EsignHigh

Denied(op, token) ==
    LET auth == get_current_user(token)
    IN  /\ resp' = Respond(op, [token |-> token], auth.code, [detail |-> auth.detail])
        /\ UNCHANGED <<orders_db, config_db, now, steps, deleted>>

(***************************************************************************)
(* Endpoints.                                                              *)
(***************************************************************************)
\* POST /login
login_for_access_token(username, password) ==
    LET req == [username |-> username, password |-> password]
    IN  /\ resp' = IF username # ADMIN_USERNAME \/ password # ADMIN_PASSWORD
                   THEN Respond("login", req, HTTP_401,
                                [detail |-> "Incorrect username or password"])
                   ELSE Respond("login", req, HTTP_200,
                                [access_token |-> ADMIN_TOKEN, token_type |-> "bearer"])
        /\ UNCHANGED <<orders_db, config_db, now, steps, deleted>>

\* POST /orders (public).  token is the bearer token of the request, which
\* this route never reads; tick is how far the clock has moved on when the
\* handler reads time.time().
create_order(token, name, udid, image, tick) ==
    LET new_id == NextId(orders_db)
        saved == save_upload_file(image, new_id)
        req == [token |-> token, name |-> name, udid |-> udid, image |-> image]
        new_order == [id |-> new_id,
                      name |-> name,
                      udid |-> udid,
                      image_url |-> saved.url,
                      status |-> PENDING,
                      download_link |-> None,
                      created_at |-> now + tick,
                      price |-> extract_price_from_name(name)]
    IN  IF ~saved.ok
        THEN /\ resp' = Respond("create_order", req, HTTP_500,
                                [detail |-> "Could not save uploaded file"])
             /\ UNCHANGED <<orders_db, config_db, now, steps, deleted>>
        ELSE /\ orders_db' = Append(orders_db, new_order)
             /\ now' = now + tick
             /\ resp' = Respond("create_order", req, HTTP_201, new_order)
             /\ steps' = steps + 1
             /\ UNCHANGED <<config_db, deleted>>

\* GET /orders (public; token is never read).  The bounded quantifiers over one-element sets name
\* the handler's local variables, each computed once.
list_orders(token, page, page_size, status, q) ==
    \E q_lower \in {QLower(q)} :
    \E filtered_orders \in {SearchFilter(StatusFilter(orders_db, status), q_lower)} :
    \E sorted_orders \in {SortByCreatedAtDesc(filtered_orders)} :
        LET start == PageStart(page, page_size)
            end == start + page_size
        IN  \E page_orders \in {PySlice(sorted_orders, start, end)} :
                LET items == [i \in 1..Len(page_orders) |-> WithPrice(page_orders[i])]
                    req == [token |-> token, page |-> page, page_size |-> page_size,
                            status |-> status, q |-> q]
                IN  /\ resp' = Respond("list_orders", req, HTTP_200,
                                       [items |-> items, total |-> Len(filtered_orders),
                                        page |-> page, page_size |-> page_size])
                    /\ UNCHANGED <<orders_db, config_db, now, steps, deleted>>

\* GET /orders/{order_id} (admin)
get_order(token, order_id) ==
    IF ~get_current_user(token).ok THEN Denied("get_order", token)
    ELSE LET req == [token |-> token, order_id |-> order_id]
             i == FindOrder(orders_db, order_id)
         IN  /\ resp' = IF i = 0
                        THEN Respond("get_order", req, HTTP_404,
                                     [detail |-> "Order not found"])
                        ELSE Respond("get_order", req, HTTP_200, WithPrice(orders_db[i]))
             /\ UNCHANGED <<orders_db, config_db, now, steps, deleted>>

\* PUT /orders/{order_id} (admin)
update_order(token, order_id, name, udid, status, download_link, image) ==
    IF ~get_current_user(token).ok THEN Denied("update_order", token)
    ELSE LET req == [token |-> token, order_id |-> order_id, name |-> name,
                     udid |-> udid, status |-> status,
                     download_link |-> download_link, image |-> image]
             order_index == FindOrder(orders_db, order_id)
             saving == image # None /\ image[1].filename # ""
             saved == IF saving THEN save_upload_file(image[1], order_id)
                      ELSE [ok |-> TRUE, url |-> << >>]
             order == ApplyUpdate(orders_db[order_index], name, udid, status,
                                  download_link,
                                  IF saving THEN Some(saved.url) ELSE None)
         IN  IF order_index = 0
             THEN /\ resp' = Respond("update_order", req, HTTP_404,
                                     [detail |-> "Order not found"])
                  /\ UNCHANGED <<orders_db, config_db, now, steps, deleted>>
             ELSE IF ~saved.ok
             THEN /\ resp' = Respond("update_order", req, HTTP_500,
                                     [detail |-> "Could not save uploaded file"])
                  /\ UNCHANGED <<orders_db, config_db, now, steps, deleted>>
             ELSE /\ orders_db' = [orders_db EXCEPT ![order_index] = order]
                  /\ resp' = Respond("update_order", req, HTTP_200, order)
                  /\ steps' = steps + 1
                  /\ UNCHANGED <<config_db, now, deleted>>

\* DELETE /orders/{order_id} (admin)
delete_order(token, order_id) ==
    IF ~get_current_user(token).ok THEN Denied("delete_order", token)
    ELSE LET req == [token |-> token, order_id |-> order_id]
             initial_length == Len(orders_db)
             remaining == RemoveOrder(orders_db, order_id)
         IN  /\ orders_db' = remaining
             /\ IF DeleteMissed(initial_length, remaining)
                THEN /\ resp' = Respond("delete_order", req, HTTP_404,
                                        [detail |-> "Order not found"])
                     /\ UNCHANGED <<steps, deleted>>
                ELSE /\ resp' = Respond("delete_order", req, HTTP_204, None)
                     /\ steps' = steps + 1
                     /\ deleted' = TRUE
             /\ UNCHANGED <<config_db, now>>

\* GET /config (admin)
get_config(token) ==
    IF ~get_current_user(token).ok THEN Denied("get_config", token)
    ELSE /\ resp' = Respond("get_config", [token |-> token], HTTP_200, config_db)
         /\ UNCHANGED <<orders_db, config_db, now, steps, deleted>>

\* PUT /config/public (admin)
update_public_image_url(token, update) ==
    IF ~get_current_user(token).ok THEN Denied("update_public_image_url", token)
    ELSE LET req == [token |-> token, update |-> update]
         IN  IF update.public_image_url = None
             THEN /\ resp' = Respond("update_public_image_url", req, HTTP_400,
                                     [detail |-> "Missing public_image_url field"])
                  /\ UNCHANGED <<orders_db, config_db, now, steps, deleted>>
             ELSE /\ config_db' = DictSet(config_db, PUBLIC_KEY, update.public_image_url[1])
                  /\ resp' = Respond("update_public_image_url", req, HTTP_200,
                                     (<<"message">> :> "Public image URL updated")
                                     @@ (PUBLIC_KEY :> update.public_image_url[1]))
                  /\ steps' = steps + 1
                  /\ UNCHANGED <<orders_db, now, deleted>>

\* PUT /config/esign/{index} (admin)
update_esign_image_url(token, index, update) ==
    IF ~get_current_user(token).ok THEN Denied("update_esign_image_url", token)
    ELSE LET req == [token |-> token, index |-> index, update |-> update]
             key == EsignKey(index)
         IN  IF ~EsignIndexOk(index)
             THEN /\ resp' = Respond("update_esign_image_url", req, HTTP_400,
                                     [detail |-> "Esign index must be between 1 and 5"])
                  /\ UNCHANGED <<orders_db, config_db, now, steps, deleted>>
             ELSE IF update.url = None
             THEN /\ resp' = Respond("update_esign_image_url", req, HTTP_400,
                                     [detail |-> "Missing url field"])
                  /\ UNCHANGED <<orders_db, config_db, now, steps, deleted>>
             ELSE /\ config_db' = DictSet(config_db, key, update.url[1])
                  /\ resp' = Respond("update_esign_image_url", req, HTTP_200,
                                     (<<"message">> :> <<"Esign image ", index, " updated">>)
                                     @@ (key :> update.url[1]))
                  /\ steps' = steps + 1
                  /\ UNCHANGED <<orders_db, now, deleted>>

(***************************************************************************)
(* Requests explored.                                                      *)
(***************************************************************************)
WRONG_TOKEN == "FAKE-JWT-TOKEN-FOR-ADMIN"
Tokens == {None, Some(WRONG_TOKEN), Some(ADMIN_TOKEN)}

CASE_999 == Str(<<"C","a","s","e"," ","$","9","9","9">>)
WIDGET == Str(<<"W","i","d","g","e","t">>)
\* U+0662, the Arabic-Indic digit two.
ARABIC_INDIC_TWO == 1634
\* A "$" without digits, then "$1" and an Arabic-Indic two, then "$3": the
\* price is the "1" and the Arabic-Indic two.
TRICKY == Str(<<"$"," ","x","$","1">>) \o <<ARABIC_INDIC_TWO>> \o Str(<<"b","$","3">>)
\* U+00C9 (capital E acute) and U+0307 (the combining dot above).
LATIN_CAPITAL_E_ACUTE == 201
COMBINING_DOT_ABOVE == 775
\* Capital E acute, capital I with dot above, capital sigma, then "-1":
\* its lowercase is one character longer and ends the word on a final
\* sigma.
UDID_1 ==
    <<LATIN_CAPITAL_E_ACUTE, LATIN_CAPITAL_I_DOT, GREEK_CAPITAL_SIGMA>>
    \o Str(<<"-","1">>)
SHIPPED == Str(<<"s","h","i","p","p","e","d">>)
REJECTED_UPPER == Str(<<"R","E","J","E","C","T","E","D">>)
LINK_1 == <<"http://x/1">>

File(filename, hex, io_ok) == [filename |-> filename, hex |-> hex, io_ok |-> io_ok]

\* Ids asked for: 0 is never live, 1 and 25 are seeded, 26 is the first id
\* create_order hands out.
OrderIds == {0, 1, NumSeed, NumSeed + 1}

\* The multipart forms sent to update_order; hex is the uuid4 hex drawn
\* for the one image that is saved.
UpdateForms(hex) ==
    { [name |-> CASE_999, udid |-> UDID_1, status |-> APPROVED,
       download_link |-> Some(LINK_1), image |-> None],
      [name |-> WIDGET, udid |-> UDID_1, status |-> REJECTED_UPPER,
       download_link |-> None, image |-> Some(File("new.png", hex, TRUE))],
      [name |-> TRICKY, udid |-> UDID_1, status |-> SHIPPED,
       download_link |-> Some(<< >>), image |-> Some(File("", FILE_HEX_1, TRUE))],
      [name |-> WIDGET, udid |-> UDID_1, status |-> APPROVED,
       download_link |-> Some(LINK_1), image |-> Some(File("new.png", FILE_HEX_1, FALSE))] }

\* The forms, whichever hex is drawn.
AllUpdateForms == UNION {UpdateForms(hex) : hex \in FileHexes}

ConfigUpdate(public_image_url, url) == [public_image_url |-> public_image_url, url |-> url]
ConfigUpdates ==
    { ConfigUpdate(None, None),
      ConfigUpdate(Some("http://img/p"), None),
      ConfigUpdate(None, Some("http://img/e")) }
EsignIndexes == {EsignLow - 1, EsignLow, EsignHigh, EsignHigh + 1}

(***************************************************************************)
(* Spec: every endpoint, MaxSteps state-changing requests.                 *)
(***************************************************************************)
Login ==
    \E u \in {ADMIN_USERNAME, "root"}, p \in {ADMIN_PASSWORD, "Password123"} :
        login_for_access_token(u, p)

CreateOrder ==
    /\ steps < MaxSteps
    /\ \E token \in Tokens, name \in {CASE_999, WIDGET}, io_ok \in BOOLEAN :
           create_order(token, name, UDID_1, File("a.png", FILE_HEX_1, io_ok), 1)

ListOrders == \E token \in Tokens : list_orders(token, 1, 12, None, None)

GetOrder == \E token \in Tokens, id \in OrderIds : get_order(token, id)

UpdateOrder ==
    /\ steps < MaxSteps
    /\ \E token \in Tokens, id \in OrderIds, f \in AllUpdateForms :
           update_order(token, id, f.name, f.udid, f.status, f.download_link, f.image)

DeleteOrder ==
    /\ steps < MaxSteps
    /\ \E token \in Tokens, id \in OrderIds : delete_order(token, id)

GetConfig == \E token \in Tokens : get_config(token)

UpdatePublicImageUrl ==
    /\ steps < MaxSteps
    /\ \E token \in Tokens, u \in ConfigUpdates : update_public_image_url(token, u)

UpdateEsignImageUrl ==
    /\ steps < MaxSteps
    /\ \E token \in Tokens, index \in EsignIndexes, u \in ConfigUpdates :
           update_esign_image_url(token, index, u)

Next ==
    \/ Login
    \/ CreateOrder
    \/ ListOrders
    \/ GetOrder
    \/ UpdateOrder
    \/ DeleteOrder
    \/ GetConfig
    \/ UpdatePublicImageUrl
    \/ UpdateEsignImageUrl

Spec == Init /\ [][Next]_vars

(***************************************************************************)
(* SpecQuery: the queries of list_orders over collections that creations,  *)
(* updates and deletions have changed.  Two creations may read the same    *)
(* clock value, which gives orders of equal created_at.                    *)
(***************************************************************************)
ITEM_2_UPPER == Str(<<"I","T","E","M"," ","2">>)
\* Capital E acute, "i", combining dot above: in lowercase, the first
\* three characters of the lowercase of UDID_1.
E_ACUTE_I_DOT ==
    <<LATIN_CAPITAL_E_ACUTE>> \o Str(<<"i">>) \o <<COMBINING_DOT_ABOVE>>
REJECTED_MIXED == Str(<<"R","e","j","e","c","t","e","d">>)

Pages == {1, 3}
PageSizes == {10, 30}
StatusArgs == {None, Some(REJECTED_MIXED), Some(SHIPPED)}
SearchArgs == {None, Some(ITEM_2_UPPER), Some(E_ACUTE_I_DOT)}

QCreateOrder ==
    /\ steps < MaxQuerySteps
    /\ \E c \in {[name |-> CASE_999, tick |-> 1], [name |-> TRICKY, tick |-> 0]} :
           create_order(None, c.name, UDID_1, File("a.png", FILE_HEX_1, TRUE), c.tick)

QUpdateOrder ==
    /\ steps < MaxQuerySteps
    /\ \E f \in {g \in UpdateForms(FILE_HEX_2) : g.status \in {REJECTED_UPPER, SHIPPED}} :
           update_order(Some(ADMIN_TOKEN), NumSeed, f.name, f.udid, f.status,
                        f.download_link, f.image)

QDeleteOrder ==
    /\ steps < MaxQuerySteps
    /\ delete_order(Some(ADMIN_TOKEN), 1)

QListOrders ==
    \E page \in Pages, page_size \in PageSizes, status \in StatusArgs, q \in SearchArgs :
        list_orders(None, page, page_size, status, q)

NextQuery ==
    \/ QCreateOrder
    \/ QUpdateOrder
    \/ QDeleteOrder
    \/ QListOrders

SpecQuery == Init /\ [][NextQuery]_vars

(***************************************************************************)
(* SpecDelete: creations, deletions and reads by id, three deep.           *)
(***************************************************************************)
DCreateOrder ==
    /\ steps < MaxDeleteSteps
    /\ \E name \in {CASE_999, WIDGET} :
           create_order(None, name, UDID_1, File("a.png", FILE_HEX_1, TRUE), 1)

DDeleteOrder ==
    /\ steps < MaxDeleteSteps
    /\ \E token \in Tokens, id \in OrderIds : delete_order(token, id)

DGetOrder == \E id \in OrderIds : get_order(Some(ADMIN_TOKEN), id)

NextDelete ==
    \/ DCreateOrder
    \/ DDeleteOrder
    \/ DGetOrder

SpecDelete == Init /\ [][NextDelete]_vars

(***************************************************************************)
(* Vocabulary of the properties.                                           *)
(***************************************************************************)
Admin == Some(ADMIN_TOKEN)
GuardedOps == {"get_order", "update_order", "delete_order", "get_config",
               "update_public_image_url", "update_esign_image_url"}
IdLive(db, id) == \E i \in 1..Len(db) : db[i].id = id
FirstWithId(db, id) ==
    CHOOSE i \in 1..Len(db) : db[i].id = id /\ \A j \in 1..(i - 1) : db[j].id # id
\* db without its k-th record
Without(db, k) == SubSeq(db, 1, k - 1) \o SubSeq(db, k + 1, Len(db))

(***************************************************************************)
(* C1.  No two orders of the live collection have the same id, in every    *)
(* state reachable by create-order, update-order and delete-order.         *)
(* The code violates it: DELETE /orders/1 and then POST /orders hands out  *)
(* len(orders_db) + 1 = 25, the id of a seeded order that is still live.   *)
(***************************************************************************)
C1_UniqueIds ==
    \A i, j \in 1..Len(orders_db) : i # j => orders_db[i].id # orders_db[j].id

(***************************************************************************)
(* C2.  While no deletion has occurred, a successful create-order assigns  *)
(* an id strictly greater than the id of every order created before it     *)
(* (the seeded ones included), and stores the new order under that id.     *)
(***************************************************************************)
C2_CreatedIdsIncrease ==
    [][(resp'.op = "create_order" /\ resp'.code = HTTP_201 /\ ~deleted)
       => /\ \A i \in 1..Len(orders_db) : orders_db[i].id < resp'.body.id
          /\ Len(orders_db') = Len(orders_db) + 1
          /\ orders_db'[Len(orders_db')].id = resp'.body.id]_vars

\* Two creations on top of the seeded orders, no deletion.
C2_Witness ==
    /\ resp.op = "create_order" /\ resp.code = HTTP_201
    /\ ~deleted
    /\ Len(orders_db) = NumSeed + 2

(***************************************************************************)
(* C3.  With any token other than the admin token, a missing one included, *)
(* get-order, update-order, delete-order, get-config, set-public-image-url *)
(* and set-esign-url answer Unauthorized and leave the order collection    *)
(* and the config map unchanged; list-orders succeeds whatever the token,  *)
(* and so does create-order once its image is stored.                      *)
(***************************************************************************)
C3_AuthGate ==
    [][/\ (resp'.op \in GuardedOps /\ resp'.req.token # Admin)
          => /\ resp'.code = HTTP_401
             /\ orders_db' = orders_db
             /\ config_db' = config_db
       /\ resp'.op = "list_orders" => resp'.code = HTTP_200
       /\ (resp'.op = "create_order" /\ resp'.req.image.io_ok)
          => resp'.code = HTTP_201]_vars

\* A delete with a token that differs from the admin token only in case,
\* refused after the collection has grown.
C3_Witness ==
    /\ resp.op = "delete_order"
    /\ resp.req.token = Some(WRONG_TOKEN)
    /\ resp.code = HTTP_401
    /\ Len(orders_db) > NumSeed

(***************************************************************************)
(* C4.  An authorized delete-order for an id no live order has answers     *)
(* NotFound and leaves the collection with the same records, the same      *)
(* field values and the same order.                                        *)
(***************************************************************************)
C4_DeleteMissing ==
    [][(/\ resp'.op = "delete_order"
        /\ resp'.req.token = Admin
        /\ ~IdLive(orders_db, resp'.req.order_id))
       => /\ resp'.code = HTTP_404
          /\ orders_db' = orders_db]_vars

\* A delete of the id just deleted.
C4_Witness ==
    /\ resp.op = "delete_order" /\ resp.code = HTTP_404
    /\ resp.req.order_id = 1
    /\ deleted

(***************************************************************************)
(* C5.  An authorized delete-order for an id a live order has removes      *)
(* exactly that one record: the collection is one shorter, the other       *)
(* records stay as they were, and no live order has the id afterwards (a   *)
(* get-order for it answers NotFound).                                     *)
(* The code violates it once C1 is violated: after DELETE /orders/1 and    *)
(* POST /orders two live orders have id 25 and DELETE /orders/25 removes   *)
(* both.                                                                   *)
(***************************************************************************)
C5_DeleteRemovesOne ==
    [][(/\ resp'.op = "delete_order"
        /\ resp'.req.token = Admin
        /\ IdLive(orders_db, resp'.req.order_id))
       => /\ resp'.code = HTTP_204
          /\ Len(orders_db') = Len(orders_db) - 1
          /\ orders_db' = Without(orders_db, FirstWithId(orders_db, resp'.req.order_id))
          /\ ~IdLive(orders_db', resp'.req.order_id)]_vars

(***************************************************************************)
(* What list-orders is to match, stated without the handler's helpers.     *)
(***************************************************************************)
\* Two strs are equal ignoring case when their lowercase forms are equal,
\* and one contains the other ignoring case when the lowercase form of
\* the one has the lowercase form of the other as a run of characters.
EqIgnoreCase(a, b) == Lower(a) = Lower(b)
ContainsIgnoreCase(needle, hay) ==
    \E n \in {Lower(needle)}, h \in {Lower(hay)} :
        \E k \in 0..(Len(h) - Len(n)) : SubSeq(h, k + 1, k + Len(n)) = n
KnownStatusArg(status) ==
    status # None /\ \E t \in {PENDING, APPROVED, REJECTED} : EqIgnoreCase(status[1], t)
SearchArgGiven(q) == q # None /\ q[1] # << >>
Keep(o, status, q) ==
    /\ KnownStatusArg(status) => EqIgnoreCase(o.status, status[1])
    /\ SearchArgGiven(q) => \/ ContainsIgnoreCase(q[1], o.name)
                            \/ ContainsIgnoreCase(q[1], o.udid)
Matching(db, status, q) == {i \in 1..Len(db) : Keep(db[i], status, q)}
\* An order as stored, apart from the price key a response adds.
Strip(o) == [f \in (DOMAIN o) \ {"price"} |-> o[f]]

(***************************************************************************)
(* C6.  If the status argument equals pending, approved or rejected        *)
(* ignoring case, list-orders matches exactly the orders whose stored      *)
(* status equals it ignoring case: total counts them all and every item is *)
(* one of them.  If the argument is another value or absent, the status    *)
(* takes no part in the match.  (The search text restricts the match in    *)
(* both cases.)                                                            *)
(***************************************************************************)
C6_StatusFilter ==
    resp.op = "list_orders" =>
        LET r == resp.req
            b == resp.body
            M == Matching(orders_db, r.status, r.q)
        IN  /\ b.total = Cardinality(M)
            /\ \A k \in 1..Len(b.items) : Keep(b.items[k], r.status, r.q)
            /\ (r.page = 1 /\ r.page_size >= b.total) => Len(b.items) = b.total
            /\ ~KnownStatusArg(r.status)
               => b.total = Cardinality(Matching(orders_db, None, r.q))

\* status=Rejected finds an order whose stored status is REJECTED.
C6_Witness ==
    /\ resp.op = "list_orders"
    /\ resp.req.status = Some(REJECTED_MIXED)
    /\ \E k \in 1..Len(resp.body.items) : resp.body.items[k].status = REJECTED_UPPER
    /\ \E k \in 1..Len(resp.body.items) : resp.body.items[k].status = REJECTED

\* Position of the order at index i among the matching orders M, newest
\* first, orders of equal created_at in insertion order.
Rank(db, M, i) ==
    1 + Cardinality({j \in M : \/ db[j].created_at > db[i].created_at
                               \/ db[j].created_at = db[i].created_at /\ j < i})

(***************************************************************************)
(* C7.  For page >= 1 and page_size >= 1, the items of list-orders are the *)
(* elements at positions [(page-1)*page_size, (page-1)*page_size+page_size)*)
(* of the matching orders sorted by created_at descending, orders of equal *)
(* created_at in insertion order; the items are empty when the range lies  *)
(* past the end; total is the number of matching orders whatever page and  *)
(* page_size are.                                                          *)
(***************************************************************************)
C7_Pagination ==
    (resp.op = "list_orders" /\ resp.req.page >= 1 /\ resp.req.page_size >= 1) =>
        LET r == resp.req
            b == resp.body
            M == Matching(orders_db, r.status, r.q)
            first == (r.page - 1) * r.page_size
            last == IF first + r.page_size < Cardinality(M)
                    THEN first + r.page_size ELSE Cardinality(M)
        IN  /\ b.total = Cardinality(M)
            /\ Len(b.items) = (IF last > first THEN last - first ELSE 0)
            /\ \A k \in 1..Len(b.items) :
                   \E i \in M : /\ Rank(orders_db, M, i) = first + k
                                /\ Strip(b.items[k]) = Strip(orders_db[i])

\* Two orders created on the same clock value, listed side by side.
C7_Witness ==
    /\ resp.op = "list_orders"
    /\ resp.req.page = 1
    /\ Len(resp.body.items) >= 2
    /\ resp.body.items[1].created_at = resp.body.items[2].created_at
    /\ resp.body.total > resp.req.page_size

\* What an update of the order at index i may not touch.
UpdateFrame(i) ==
    /\ Len(orders_db') = Len(orders_db)
    /\ orders_db'[i].id = orders_db[i].id
    /\ orders_db'[i].created_at = orders_db[i].created_at
    /\ \A j \in 1..Len(orders_db) : j # i => orders_db'[j] = orders_db[j]
    /\ config_db' = config_db

NothingChanged == orders_db' = orders_db /\ config_db' = config_db

\* The request carries an image file whose write to disk fails.
WriteFails(r) == r.image # None /\ r.image[1].filename # "" /\ ~r.image[1].io_ok

(***************************************************************************)
(* C8.  As claimed: an authorized update-order on a live order sets its    *)
(* name, udid, status and download_link to the supplied values             *)
(* unconditionally, replaces image_url only when a new image file is       *)
(* supplied, and leaves its id and created_at, every other order and the   *)
(* config map unchanged; on an id no live order has it answers NotFound    *)
(* and changes nothing.                                                    *)
(* Read for the updates the image store does not abort (a failed image     *)
(* write answers a storage error before any field is written).             *)
(* The code departs from it: a download_link supplied empty is stored as   *)
(* None, not as the supplied value.                                        *)
(***************************************************************************)
C8_UpdateAsClaimed ==
    [][(resp'.op = "update_order" /\ resp'.req.token = Admin
        /\ ~WriteFails(resp'.req)) =>
         LET r == resp'.req
         IN  IF ~IdLive(orders_db, r.order_id)
             THEN resp'.code = HTTP_404 /\ NothingChanged
             ELSE LET i == FirstWithId(orders_db, r.order_id)
                  IN  /\ UpdateFrame(i)
                      /\ orders_db'[i].name = r.name
                      /\ orders_db'[i].udid = r.udid
                      /\ orders_db'[i].status = r.status
                      /\ orders_db'[i].download_link = r.download_link
                      /\ orders_db'[i].image_url # orders_db[i].image_url
                         => r.image # None]_vars

\* url is a path the image store made for an upload of that file name.
StoredFor(url, filename) ==
    /\ Len(url) > 4
    /\ SubSeq(url, 1, 4) = <<"/", "images", "/", "order_">>
    /\ url[Len(url)] = filename

(***************************************************************************)
(* C8, amended.  An authorized update-order on a live order answers a      *)
(* storage error and changes nothing when it is sent an image file whose   *)
(* write fails; otherwise it succeeds and sets name, udid and status to    *)
(* the supplied values, sets download_link to the supplied value, or to    *)
(* None when that value is empty or absent, replaces image_url exactly     *)
(* when an image file with a file name is supplied, and leaves the order's *)
(* id and created_at, every other order and the config map unchanged.  On  *)
(* an id no live order has it answers NotFound and changes nothing.        *)
(***************************************************************************)
C8_Update ==
    [][(resp'.op = "update_order" /\ resp'.req.token = Admin) =>
         LET r == resp'.req
             file == r.image # None /\ r.image[1].filename # ""
         IN  IF ~IdLive(orders_db, r.order_id)
             THEN resp'.code = HTTP_404 /\ NothingChanged
             ELSE IF WriteFails(r)
             THEN resp'.code = HTTP_500 /\ NothingChanged
             ELSE LET i == FirstWithId(orders_db, r.order_id)
                  IN  /\ resp'.code = HTTP_200
                      /\ UpdateFrame(i)
                      /\ orders_db'[i].name = r.name
                      /\ orders_db'[i].udid = r.udid
                      /\ orders_db'[i].status = r.status
                      /\ orders_db'[i].download_link =
                             (IF r.download_link = None \/ r.download_link = Some(<< >>)
                              THEN None ELSE r.download_link)
                      /\ IF file
                         THEN StoredFor(orders_db'[i].image_url, r.image[1].filename)
                         ELSE orders_db'[i].image_url = orders_db[i].image_url]_vars

\* An update that supplies an empty download_link and an upload without a
\* file name, applied to an order whose image an earlier update replaced.
C8_Witness ==
    /\ resp.op = "update_order" /\ resp.code = HTTP_200
    /\ resp.req.download_link = Some(<< >>)
    /\ resp.req.image # None
    /\ resp.body.download_link = None
    /\ resp.body.image_url # DEFAULT_IMAGE_URL

\* price is the price token of name, read off the name itself.
\* A decimal digit: a character of one of the Unicode runs zero to nine.
Digit(c) == \E z \in DigitZeros : c \in z..(z + 9)
TokenAt(name, k) == k < Len(name) /\ name[k] = Ord["$"] /\ Digit(name[k + 1])
PriceOf(name, price) ==
    IF \E k \in 1..Len(name) : TokenAt(name, k)
    THEN \E k \in 1..Len(name) :
            /\ TokenAt(name, k)
            /\ \A j \in 1..(k - 1) : ~TokenAt(name, j)
            /\ \E n \in 1..(Len(name) - k) :
                  /\ price = SubSeq(name, k + 1, k + n)
                  /\ \A m \in (k + 1)..(k + n) : Digit(name[m])
                  /\ k + n = Len(name) \/ ~Digit(name[k + n + 1])
    ELSE price = Str(<<"N", "/", "A">>)

(***************************************************************************)
(* C9.  The price of every order response (create, update, get-order and   *)
(* each item of list-orders) is the price token of the name the order      *)
(* holds in the collection at that moment: the digits that follow the      *)
(* leftmost "$" followed by a digit, or "N/A" when the name has no such    *)
(* token.                                                                  *)
(***************************************************************************)
C9_PriceFollowsName ==
    /\ (resp.op \in {"create_order", "update_order", "get_order"}
        /\ resp.code \in {HTTP_200, HTTP_201})
       => LET held == IF resp.op = "create_order" THEN orders_db[Len(orders_db)]
                      ELSE orders_db[FirstWithId(orders_db, resp.body.id)]
          IN  /\ "price" \in DOMAIN resp.body
              /\ Strip(resp.body) = Strip(held)
              /\ PriceOf(held.name, resp.body.price)
    /\ resp.op = "list_orders"
       => \A k \in 1..Len(resp.body.items) :
              LET item == resp.body.items[k]
              IN  /\ "price" \in DOMAIN item
                  /\ \E i \in 1..Len(orders_db) : Strip(orders_db[i]) = Strip(item)
                  /\ PriceOf(item.name, item.price)

\* A read of an order created with a price in its name and renamed to a
\* name without one.
C9_Witness ==
    /\ resp.op = "get_order" /\ resp.code = HTTP_200
    /\ resp.body.id = NumSeed + 1
    /\ resp.body.name = WIDGET
    /\ resp.body.price = NA
    /\ steps = 2

SixKeys == {<<"public_image_url">>, <<"esign_image_", 1>>, <<"esign_image_", 2>>,
            <<"esign_image_", 3>>, <<"esign_image_", 4>>, <<"esign_image_", 5>>}

(***************************************************************************)
(* C10.  The config map always has exactly the six keys public_image_url   *)
(* and esign_image_1..esign_image_5.  An authorized set-public-image-url   *)
(* with a url, or set-esign-url with an index in 1..5 and a url,           *)
(* overwrites the value of its own key only; with the url absent, or the   *)
(* index outside 1..5, the request answers a validation error and the map  *)
(* is unchanged.  No other request changes the map.                        *)
(***************************************************************************)
C10_ConfigKeys ==
    [][/\ DOMAIN config_db' = SixKeys
       /\ (resp'.op = "update_public_image_url" /\ resp'.req.token = Admin)
          => LET u == resp'.req.update
             IN  IF u.public_image_url = None
                 THEN resp'.code = HTTP_400 /\ config_db' = config_db
                 ELSE /\ resp'.code = HTTP_200
                      /\ config_db' = [config_db EXCEPT
                             ![<<"public_image_url">>] = u.public_image_url[1]]
       /\ (resp'.op = "update_esign_image_url" /\ resp'.req.token = Admin)
          => LET u == resp'.req.update
                 index == resp'.req.index
             IN  IF index \notin 1..5 \/ u.url = None
                 THEN resp'.code = HTTP_400 /\ config_db' = config_db
                 ELSE /\ resp'.code = HTTP_200
                      /\ config_db' = [config_db EXCEPT
                             ![<<"esign_image_", index>>] = u.url[1]]
       /\ resp'.op \notin {"update_public_image_url", "update_esign_image_url"}
          => config_db' = config_db]_vars

\* Slot 5 overwritten after the public url was.
C10_Witness ==
    /\ resp.op = "update_esign_image_url" /\ resp.code = HTTP_200
    /\ resp.req.index = 5
    /\ config_db[<<"esign_image_", 5>>] = "http://img/e"
    /\ config_db[<<"public_image_url">>] = "http://img/p"
    /\ config_db[<<"esign_image_", 1>>] = ""

====
